---- MODULE Spec2Model ----
(***************************************************************************)
(* Hanna Cloud integration: the API client (HannaCloudAPI), the polling    *)
(* coordinator (HannaCloudCoordinator) and the config entry life cycle     *)
(* (async_setup_entry / async_unload_entry) of                             *)
(* custom_components/hanna/__init__.py.                                    *)
(*                                                                         *)
(* The code is asyncio code: it runs atomically between two awaits.  The   *)
(* awaits that matter are the HTTP exchanges, so one action of the model   *)
(* is the code that runs from the arrival of a response to the sending of  *)
(* the next request (or to the end of the refresh cycle).  The remote      *)
(* service is the environment: the response r an action handles is any     *)
(* response the service can produce, a timeout or a transport error.       *)
(***************************************************************************)
EXTENDS Integers, Sequences, FiniteSets, TLC

\* ------------------------------------------------------------------ bounds
MaxDevices == 1     \* length of a devices payload
MaxReadings == 2    \* length of a lastDeviceReadings payload
MaxCount == 3       \* the per-call counters saturate here

\* ---------------------------------------------------------------- universe
Entry == "entry1"
DIDs == {"A", "B"}
NoKey == "<no DID>"             \* a device record without a "DID" key
Tokens == {"t1", "t2"}
NoToken == "None"               \* self.token = None
EmptyToken == ""                \* a login payload with "token": ""
AbsentToken == "<absent>"       \* a login payload without "token"

ExceptionKinds == {"UpdateFailed", "ClientError", "JSONError", "TypeError", "KeyError"}

SeqsUpTo(S, n) == UNION {[1..k -> S] : k \in 0..n}

Min(a, b) == IF a < b THEN a ELSE b
Bump(n) == Min(n + 1, MaxCount)

\* --------------------------------------------------------- HTTP messages
\* A JSON body, reduced to what the code inspects:
\*   json   "invalid" (response.json() raises), "null", "object"
\*   errors the top-level "errors" key is present (a non-empty list)
\*   data   the top-level "data" key: "absent", "null", "object"
\*   field  data.login / data.devices / data.lastDeviceReadings:
\*          "absent", "null", "list", "object"
\*   list   the elements when field is "list"
\*   token  the "token" member of the login object (first list element)
Body(json, errors, data_, field, list, tok) ==
    [json |-> json, errors |-> errors, data |-> data_, field |-> field,
     list |-> list, token |-> tok]

NoBody == Body("invalid", FALSE, "absent", "absent", <<>>, AbsentToken)

Response(kind, status, body) == [kind |-> kind, status |-> status, body |-> body]

NoRequest == [url |-> "none", op |-> "none", bearer |-> NoToken, device_ids |-> <<>>]

DeviceList(s) == [i \in 1..Len(s) |-> [DID |-> s[i]]]
ReadingList(s) == [i \in 1..Len(s) |-> [DID |-> s[i], DT |-> i]]

DevicePayloads ==
    {DeviceList(s) : s \in SeqsUpTo(DIDs, MaxDevices)} \cup {DeviceList(<<NoKey>>)}
ReadingPayloads == {ReadingList(s) : s \in SeqsUpTo(DIDs, MaxReadings)}

\* the shapes of a 200 body that are independent of the payload
ShapeBodies ==
    {Body("invalid", FALSE, "absent", "absent", <<>>, AbsentToken),
     Body("null", FALSE, "absent", "absent", <<>>, AbsentToken)}
    \cup {Body("object", e, d, "absent", <<>>, AbsentToken) :
            e \in BOOLEAN, d \in {"absent", "null", "object"}}
    \cup {Body("object", e, "object", "null", <<>>, AbsentToken) : e \in BOOLEAN}

DataBodies(payloads) ==
    ShapeBodies
    \cup {Body("object", e, "object", "list", l, AbsentToken) :
            e \in BOOLEAN, l \in payloads}

LoginBodies ==
    ShapeBodies
    \cup {Body("object", e, "object", f, <<>>, t) :
            e \in BOOLEAN, f \in {"list", "object"},
            t \in Tokens \cup {EmptyToken, AbsentToken}}
    \cup {Body("object", FALSE, "object", "emptylist", <<>>, AbsentToken)}

Failures == {Response("timeout", 0, NoBody), Response("error", 0, NoBody)}

LoginResponses ==
    Failures
    \cup {Response("http", s, NoBody) : s \in {401, 500}}
    \cup {Response("http", 200, b) : b \in LoginBodies}

DataResponses(payloads) ==
    Failures
    \cup {Response("http", s, NoBody) : s \in {401, 403, 500}}
    \cup {Response("http", 200, b) : b \in DataBodies(payloads)}

DevicesResponses == DataResponses(DevicePayloads)
ReadingsResponses == DataResponses(ReadingPayloads)

\* What a service in good order answers: it accepts the login, in either
\* shape of the payload, and answers a query by 200 with the queried list.
AcceptedLogins ==
    {Response("http", 200, Body("object", FALSE, "object", f, <<>>, t)) :
        f \in {"list", "object"}, t \in Tokens}
ValidData(payloads) ==
    {Response("http", 200, Body("object", FALSE, "object", "list", l, AbsentToken)) :
        l \in payloads}
ValidDevices == ValidData(DevicePayloads \ {DeviceList(<<NoKey>>)})
ValidReadings == ValidData(ReadingPayloads)

\* ------------------------------------------------------------ PollResult
EmptyDict == [d \in {} |-> 0]
PollResult(devs, rds, dc, rc) ==
    [published |-> TRUE, devices |-> devs, readings |-> rds, dcycle |-> dc, rcycle |-> rc]
NoData == [published |-> FALSE, devices |-> <<>>, readings |-> EmptyDict,
           dcycle |-> 0, rcycle |-> 0]

VARIABLES
    entry_state,     \* "not_loaded", "setup_in_progress", "setup_retry", "loaded", "failed_unload"
    hass_data,       \* hass.data[DOMAIN]: the entry ids that have a coordinator
    platforms,       \* the sensor platform of the entry is set up
    token,           \* HannaCloudAPI.token
    data,            \* coordinator.data: the published PollResult
    last_exception,  \* what left the last _async_update_data; none while it runs
    pc,              \* "idle", "await_auth", "await_data", "forward"
    request,         \* the HTTP request in flight
    devices,         \* _async_update_data's local: what get_devices returned
    cycle,           \* parity of the number of refresh cycles started
    call,            \* the client call in progress, with its history
    healthy,         \* the remote service is in good order, and stays so
    crypto,          \* Crypto (pycryptodome) can be imported in this process
    timed,           \* one client call with its clock and its timeouts (TimedSpec)
    options,         \* the entry's options and the interval in use (OptionsSpec)
    flow,            \* the configuration flow of one submission (FlowSpec)
    cipher           \* one run of hanna_encrypt (CipherSpec)

\* the entry, its coordinator and its client, and their environment
poll_vars == <<entry_state, hass_data, platforms, token, data, last_exception, pc,
               request, devices, cycle, call, healthy, crypto>>
\* what the refresh cycles leave alone
other_vars == <<timed, options, flow, cipher>>
\* what each of the other specifications leaves alone
timed_frame == <<poll_vars, options, flow, cipher>>
options_frame == <<poll_vars, timed, flow, cipher>>
flow_frame == <<poll_vars, timed, options, cipher>>
cipher_frame == <<poll_vars, timed, options, flow>>

vars == <<poll_vars, other_vars>>


\* ------------------------------------------------------ the client call
\* The history of one call of get_devices / get_device_readings (the
\* recursive retries included): how many data requests and logins it sent,
\* how many of the logins were re-authentications, the status (401 or 403)
\* that caused the last of them, the token its last login obtained, and how
\* it ended.
NoCall == [op |-> "none", device_ids |-> <<>>, reqs |-> 0, logins |-> 0, reauths |-> 0,
           rejected |-> 0, issued |-> NoToken, outcome |-> "none"]
NewCall(op_, ids) == [NoCall EXCEPT !.op = op_, !.device_ids = ids, !.outcome = "pending"]
\* a call that ended: its history ends with it
Ended(op_, outcome) == [NoCall EXCEPT !.op = op_, !.outcome = outcome]

\* What the code after `await response.text()` does with a response:
\*   act "return" (value, isNone), "raise" (exc) or "reauth" (401/403).
Return(v) == [act |-> "return", exc |-> "none", isNone |-> FALSE, value |-> v]
ReturnNone == [act |-> "return", exc |-> "none", isNone |-> TRUE, value |-> <<>>]
Raise(e) == [act |-> "raise", exc |-> e, isNone |-> FALSE, value |-> <<>>]
Reauth == [act |-> "reauth", exc |-> "none", isNone |-> FALSE, value |-> <<>>]

\* authenticate() in three layers, as its try blocks nest.  What a layer
\* returns is the token it stored, NoToken for `return False`.
\* Innermost, the statements under `if response.status == 200: try:`,
\* without the handler of that try:
parse_login_ignores_errors(body) ==
    IF body.json = "invalid" THEN Raise("JSONError")
    ELSE IF body.json = "null" THEN Raise("TypeError")
    ELSE IF body.data # "object" \/ body.field = "absent" THEN Return(NoToken)
    ELSE IF body.field \notin {"list", "object"} THEN Return(NoToken)
    ELSE IF body.token \in {AbsentToken, EmptyToken} THEN Return(NoToken)
    ELSE Return(body.token)

parse_login_list_only(body) ==
    IF body.json = "invalid" THEN Raise("JSONError")
    ELSE IF body.json = "null" THEN Raise("TypeError")
    ELSE IF body.errors THEN Return(NoToken)
    ELSE IF body.data # "object" \/ body.field = "absent" THEN Return(NoToken)
    ELSE IF body.field # "list" THEN Return(NoToken)
    ELSE IF body.token \in {AbsentToken, EmptyToken} THEN Return(NoToken)
    ELSE Return(body.token)

parse_login_object_only(body) ==
    IF body.json = "invalid" THEN Raise("JSONError")
    ELSE IF body.json = "null" THEN Raise("TypeError")
    ELSE IF body.errors THEN Return(NoToken)
    ELSE IF body.data # "object" \/ body.field = "absent" THEN Return(NoToken)
    ELSE IF body.field # "object" THEN Return(NoToken)
    ELSE IF body.token \in {AbsentToken, EmptyToken} THEN Return(NoToken)
    ELSE Return(body.token)

parse_login(body) ==
    IF body.json = "invalid" THEN Raise("JSONError")        \* response.json()
    ELSE IF body.json = "null" THEN Raise("TypeError")      \* "errors" in None
    ELSE IF body.errors THEN Return(NoToken)
    ELSE IF body.data # "object" \/ body.field = "absent" THEN Return(NoToken)
    ELSE IF body.field \notin {"list", "object"} THEN Return(NoToken)
    ELSE IF body.token \in {AbsentToken, EmptyToken} THEN Return(NoToken)
    ELSE Return(body.token)

\* The statements under the outer `try`, without its handlers: the inner
\* handler `except Exception as json_err: return False` is part of them.
login_attempt(r) ==
    IF r.kind = "timeout" THEN Raise("TimeoutError")
    ELSE IF r.kind = "error" THEN Raise("ClientError")
    ELSE IF r.status # 200 THEN Return(NoToken)
    ELSE LET p == parse_login(r.body) IN
         IF p.act = "raise" THEN Return(NoToken) ELSE p

authenticate_outcome_unguarded(r) == login_attempt(r)

\* `except asyncio.TimeoutError: return False`, `except Exception: return False`
authenticate_outcome(r) ==
    LET a == login_attempt(r) IN
    IF a.act = "raise" THEN Return(NoToken) ELSE a

\* the token authenticate() stores, NoToken when it stores none
authenticate(r) ==
    LET out == authenticate_outcome(r) IN
    IF out.act = "return" THEN out.value ELSE NoToken

RECURSIVE readings_dict_first_wins(_)
readings_dict_first_wins(l) ==
    IF l = <<>> THEN EmptyDict
    ELSE LET n == Len(l) IN
         readings_dict_first_wins(SubSeq(l, 1, n - 1)) @@ (l[n].DID :> l[n])

\* readings_dict = {reading["DID"]: reading for reading in lastDeviceReadings}
RECURSIVE readings_dict(_)
readings_dict(l) ==
    IF l = <<>> THEN EmptyDict
    ELSE LET n == Len(l) IN (l[n].DID :> l[n]) @@ readings_dict(SubSeq(l, 1, n - 1))

\* A "timeout" is the 10 s deadline of the outermost call: the retry recurses
\* inside `async with async_timeout.timeout(10)`, the cancellation passes
\* through the inner frames and the outermost one raises UpdateFailed.  The
\* interpreter's recursion limit is not modelled.
get_devices_rejects_all(r) ==
    IF r.kind = "timeout" THEN Raise("UpdateFailed")
    ELSE IF r.kind = "error" THEN Raise("ClientError")
    ELSE IF r.status = 200 /\ r.body.json = "object" /\ r.body.data = "object"
            /\ r.body.field = "list" THEN Return(r.body.list)
    ELSE Reauth

get_devices(r) ==
    IF r.kind = "timeout" THEN Raise("UpdateFailed")
    ELSE IF r.kind = "error" THEN Raise("ClientError")
    ELSE IF r.status = 200 THEN
        IF r.body.json = "invalid" THEN Raise("JSONError")
        ELSE IF r.body.json = "null" THEN Raise("TypeError")
        ELSE IF r.body.data = "null" THEN Raise("TypeError")
        ELSE IF r.body.data = "object" /\ r.body.field = "list" THEN Return(r.body.list)
        ELSE IF r.body.data = "object" /\ r.body.field = "null" THEN ReturnNone
        ELSE Raise("UpdateFailed")          \* GraphQL error / unexpected format
    ELSE IF r.status \in {401, 403} THEN Reauth
    ELSE Raise("UpdateFailed")

get_device_readings(r) ==
    IF r.kind = "timeout" THEN Raise("UpdateFailed")
    ELSE IF r.kind = "error" THEN Raise("ClientError")
    ELSE IF r.status = 200 THEN
        IF r.body.json = "invalid" THEN Raise("JSONError")
        ELSE IF r.body.json = "null" THEN Raise("TypeError")
        ELSE IF r.body.data = "null" THEN Raise("TypeError")
        ELSE IF r.body.data = "object" /\ r.body.field = "list"
            THEN Return(readings_dict(r.body.list))
        ELSE IF r.body.data = "object" /\ r.body.field = "null" THEN Raise("TypeError")
        ELSE Raise("UpdateFailed")          \* falls through to the status line
    ELSE IF r.status \in {401, 403} THEN Reauth
    ELSE Raise("UpdateFailed")

Bearer_absent(tok) == NoToken

\* the Authorization header built from self.token when the request is built
Bearer(tok) == tok

device_ids_unique(devs) ==
    LET ids == {devs[i].DID : i \in 1..Len(devs)}
    IN  CHOOSE l \in [1..Cardinality(ids) -> ids] : {l[i] : i \in DOMAIN l} = ids

\* device_ids = [device["DID"] for device in devices]
device_ids(devs) == [i \in 1..Len(devs) |-> devs[i].DID]
HasDID(devs) == \A i \in 1..Len(devs) : devs[i].DID # NoKey

\* `except Exception as err: raise UpdateFailed(f"...: {err}")`
NoException == [kind |-> "none", cause |-> "none"]
WrapException_rethrows(e) == [kind |-> e, cause |-> e]
WrapException(e) == [kind |-> "UpdateFailed", cause |-> e]


\* ------------------------------------------------------------ the state
CallRecords ==
    [op : {"none", "get_devices", "get_device_readings"},
     device_ids : SeqsUpTo(DIDs, MaxDevices),
     reqs : 0..MaxCount, logins : 0..MaxCount, reauths : 0..MaxCount,
     rejected : {0, 401, 403},
     issued : Tokens \cup {NoToken},
     outcome : {"none", "pending", "ok"} \cup ExceptionKinds]

TypeOK ==
    /\ entry_state \in {"not_loaded", "setup_in_progress", "setup_retry", "loaded",
                        "failed_unload"}
    /\ hass_data \subseteq {Entry}
    /\ platforms \in BOOLEAN
    /\ token \in Tokens \cup {NoToken}
    /\ data.published \in BOOLEAN
    /\ data.dcycle \in {0, 1} /\ data.rcycle \in {0, 1}
    /\ last_exception.kind \in {"none"} \cup ExceptionKinds
    /\ pc \in {"idle", "await_auth", "await_data", "forward"}
    /\ request.url \in {"none", "/auth", "/graphql"}
    /\ request.bearer \in Tokens \cup {NoToken}
    /\ Len(devices.list) <= MaxDevices
    /\ cycle \in {0, 1}
    /\ call \in CallRecords
    /\ healthy \in BOOLEAN
    /\ crypto \in BOOLEAN

\* -------------------------------------------- a client call and its clock
\* `async with async_timeout.timeout(15)` in authenticate and
\* `async with async_timeout.timeout(10)` in get_devices and
\* get_device_readings, in the same time units
AuthTimeout == 15
DataTimeout == 10
MaxTime == 26        \* the clock stops here
MaxRequests == 3     \* data requests of one call: no further retry after these

\* phase   "idle", "login" (authenticate at the entry of the call), "data",
\*         "relogin" (authenticate after a 401/403), "done"
\* now     the clock
\* sent    when the request in flight was sent
\* stack   the deadlines of the timeout blocks the call is in, outermost first
\* reqs    the data requests sent so far
\* waited  how long the request waited that a timeout abandoned
\* level   the position in the stack of the timeout that fired
NoTimed == [phase |-> "idle", now |-> 0, sent |-> 0, stack |-> <<>>, reqs |-> 0,
            outcome |-> "none", waited |-> 0, level |-> 0]

\* ------------------------------------------- the options and the interval
\* `DEFAULT_UPDATE_INTERVAL = 5` and `vol.Range(min=1, max=60)`, in minutes
DEFAULT_UPDATE_INTERVAL == 5
MinInterval == 1
MaxInterval == 60
Margin == 4          \* submitted numbers reach this many half minutes past the range

CONF_UPDATE_INTERVAL == "update_interval"

\* A dict is the set of its items.
dict_get(d, key, default) ==
    IF \E item \in d : item[1] = key
    THEN (CHOOSE item \in d : item[1] = key)[2]
    ELSE default

\* What a user submits for update_interval: nothing, a number (JSON has
\* fractions; they are counted in half minutes here) or a text that is no
\* number.
Absent == [kind |-> "absent", halves |-> 0]
Number(h) == [kind |-> "number", halves |-> h]
NotANumber == [kind |-> "text", halves |-> 0]
Submitted ==
    {Absent, NotANumber}
      \cup {Number(h) : h \in (2 * MinInterval - Margin - 2)..(2 * MinInterval + Margin)}
      \cup {Number(h) : h \in (2 * MaxInterval - Margin)..(2 * MaxInterval + Margin)}
      \cup {Number(2 * DEFAULT_UPDATE_INTERVAL)}

\* `vol.Coerce(int)`: int() of a number drops its fraction, towards zero;
\* of a text that is no number it raises, which is Invalid
Invalid == [valid |-> FALSE, value |-> 0]
Valid(v) == [valid |-> TRUE, value |-> v]
Coerce_int_rounds(v) ==
    IF v.kind = "number" THEN Valid((v.halves + 1) \div 2) ELSE Invalid
Coerce_int(v) ==
    IF v.kind = "number"
    THEN Valid(IF v.halves >= 0 THEN v.halves \div 2 ELSE -((-v.halves) \div 2))
    ELSE Invalid

\* `vol.Range(min=1, max=60)`
Range(min, max, n) == IF min <= n /\ n <= max THEN Valid(n) ELSE Invalid

\* `vol.All(vol.Coerce(int), vol.Range(min=1, max=60))`
interval_validator(v) ==
    IF Coerce_int(v).valid
    THEN Range(MinInterval, MaxInterval, Coerce_int(v).value)
    ELSE Invalid

\* The schema of the options form on what was submitted, as the flow manager
\* applies it before the step sees the input: a missing key gets the
\* default, the stored option or DEFAULT_UPDATE_INTERVAL.
options_schema(stored, v) ==
    IF v.kind = "absent"
    THEN interval_validator(
             Number(2 * dict_get(stored, CONF_UPDATE_INTERVAL, DEFAULT_UPDATE_INTERVAL)))
    ELSE interval_validator(v)

\* `timedelta(minutes=entry.options.get(CONF_UPDATE_INTERVAL, 5))`, in
\* seconds; the 5 is written out there and equals DEFAULT_UPDATE_INTERVAL
update_interval(stored) ==
    60 * dict_get(stored, CONF_UPDATE_INTERVAL, DEFAULT_UPDATE_INTERVAL)

\* stored     entry.options
\* interval   coordinator.update_interval in seconds, 0 before a coordinator is made
\* made       parity of the number of coordinators made
\* submitted  what the last submission to the options flow held
\* result     "none", "form" (shown), "invalid" (refused by the schema),
\*            "create_entry" (stored)
NoOptions == [stored |-> {}, interval |-> 0, made |-> 0, submitted |-> Absent,
              result |-> "none"]

\* ---------------------------------------------------- the configuration flow
Emails == {"a@example.org", "b@example.org"}
NoResponse == Response("none", 0, NoBody)

\* The statements under `try:` in validate_input, without its handler.
validate_attempt(r) ==
    IF r.kind = "timeout" THEN Raise("TimeoutError")
    ELSE IF r.kind = "error" THEN Raise("ClientError")
    ELSE IF r.status # 200
         THEN IF r.status = 401 THEN Raise("InvalidAuth") ELSE Raise("CannotConnect")
    ELSE IF r.body.json = "invalid" THEN Raise("JSONError")        \* response.json()
    ELSE IF r.body.json = "null" THEN Raise("TypeError")           \* "errors" in None
    ELSE IF r.body.errors THEN Raise("InvalidAuth")
    ELSE IF r.body.data # "object" \/ r.body.field = "absent" THEN Raise("InvalidAuth")
    ELSE IF r.body.field \in {"list", "object"} /\ r.body.token \in Tokens
         THEN Return(r.body.token)
    ELSE Raise("InvalidAuth")

\* validate_input: ImportError raises CannotConnect, and so does
\* `except Exception as err: raise CannotConnect` around the rest, for
\* whatever was raised there
validate_input(available, r) ==
    IF ~available THEN Raise("CannotConnect")
    ELSE IF validate_attempt(r).act = "raise" THEN Raise("CannotConnect")
    ELSE validate_attempt(r)

unique_id_configured_never(entries, unique_id) == FALSE

\* `self._abort_if_unique_id_configured()` after
\* `await self.async_set_unique_id(user_input[CONF_EMAIL])`: an entry with
\* this unique id exists
unique_id_configured(entries, unique_id) ==
    \E i \in 1..Len(entries) : entries[i] = unique_id

\* the handlers of async_step_user
base_error(exc) ==
    IF exc = "CannotConnect" THEN "cannot_connect"
    ELSE IF exc = "InvalidAuth" THEN "invalid_auth"
    ELSE "unknown"

\* result    "none", "form", "create_entry", "abort"
\* errors    errors["base"] of the form shown, "none" without one
\* entries   the unique ids (emails) of the entries that exist, as created
\* email     the email of the last submission, response the answer to its
\*           login, raised what validate_input raised on it
NoFlow == [result |-> "none", errors |-> "none", entries |-> <<>>, email |-> "none",
           response |-> NoResponse, raised |-> "none"]
\* ------------------------------------------------------------ hanna_encrypt
\* Texts are sequences of code points, byte strings sequences of 0..255.
MaxPlain == 33       \* the longest plaintext, in characters
MaxIV == 3           \* the IVs that random.choice is let draw

\* "MzJmODBmMDU0ZTAyNDFjYWM0YTVhOGQxY2ZlZTkwMDM="
key_base64 ==
    <<77, 122, 74, 109, 79, 68, 66, 109, 77, 68, 85, 48, 90, 84, 65, 121, 78, 68, 70,
      106, 89, 87, 77, 48, 89, 84, 86, 104, 79, 71, 81, 120, 89, 50, 90, 108, 90, 84,
      107, 119, 77, 68, 77, 61>>

\* base64.b64decode: A-Z, a-z, 0-9, + and / count 0..63, four characters
\* give three bytes, and each "=" at the end takes one byte off
b64value(c) ==
    IF 65 <= c /\ c <= 90 THEN c - 65
    ELSE IF 97 <= c /\ c <= 122 THEN c - 71
    ELSE IF 48 <= c /\ c <= 57 THEN c + 4
    ELSE IF c = 43 THEN 62
    ELSE IF c = 47 THEN 63
    ELSE 0
b64group(q) ==
    LET n == 262144 * b64value(q[1]) + 4096 * b64value(q[2])
               + 64 * b64value(q[3]) + b64value(q[4])
        bytes == <<n \div 65536, (n \div 256) % 256, n % 256>>
        fill == Cardinality({i \in 1..4 : q[i] = 61})
    IN  SubSeq(bytes, 1, 3 - fill)
RECURSIVE b64decode(_)
b64decode(text) ==
    IF Len(text) < 4 THEN <<>>
    ELSE b64group(SubSeq(text, 1, 4)) \o b64decode(SubSeq(text, 5, Len(text)))

\* `string.ascii_letters + string.digits`: a-z, A-Z, 0-9
chars(n) ==
    IF n < 26 THEN 97 + n
    ELSE IF n < 52 THEN 65 + n - 26
    ELSE 48 + n - 52
\* `"".join(random.choice(chars) for _ in range(16))`: some of its outcomes
IVs == {[j \in 1..16 |-> chars((i * j + j * j) % 62)] : i \in 1..MaxIV}

\* str.encode(): UTF-8
utf8(cp) ==
    IF cp < 128 THEN <<cp>>
    ELSE IF cp < 2048 THEN <<192 + (cp \div 64), 128 + (cp % 64)>>
    ELSE IF cp < 65536
         THEN <<224 + (cp \div 4096), 128 + ((cp \div 64) % 64), 128 + (cp % 64)>>
         ELSE <<240 + (cp \div 262144), 128 + ((cp \div 4096) % 64),
                128 + ((cp \div 64) % 64), 128 + (cp % 64)>>
RECURSIVE str_encode(_)
str_encode(text) ==
    IF text = <<>> THEN <<>> ELSE utf8(Head(text)) \o str_encode(Tail(text))

\* The plaintexts: "a", e-acute, the euro sign and an emoji (1 to 4 bytes
\* each) in runs of every length up to MaxPlain.
Alphabet == <<97, 233, 8364, 128512>>
Plaintexts ==
    {[i \in 1..n |-> Alphabet[((i * k) % 4) + 1]] : n \in 0..MaxPlain, k \in 0..3}

\* Crypto.Util.Padding.pad (PKCS#7): 1 to block_size bytes, each the count
block_size == 16
pad_to_multiple(buf, size) ==
    LET n == (size - (Len(buf) % size)) % size IN buf \o [i \in 1..n |-> n]
pad(buf, size) ==
    LET n == size - (Len(buf) % size) IN buf \o [i \in 1..n |-> n]

RECURSIVE xor(_, _)
xor(a, b) ==
    IF a = 0 THEN b
    ELSE IF b = 0 THEN a
    ELSE (2 * xor(a \div 2, b \div 2)) + ((a + b) % 2)
strxor(x, y) == [i \in 1..Len(x) |-> xor(x[i], y[i])]

\* The block transformation of AES is that of the Crypto package.  What
\* stands for it here is a permutation of the 16-byte blocks that depends
\* on the key, with its inverse: AES has this, and no more of it is used.
round_key(key, i) == key[((i - 1) % Len(key)) + 1] + key[((i + 15) % Len(key)) + 1]
encrypt_block(key, block) ==
    [i \in 1..16 |-> ((5 * block[(i % 16) + 1]) + round_key(key, i)) % 256]
decrypt_block(key, block) ==
    [j \in 1..16 |->
        LET i == ((j + 14) % 16) + 1 IN (205 * (block[i] + 512 - round_key(key, i))) % 256]

\* `AES.new(key, AES.MODE_CBC, iv)` and `cipher.encrypt(padded)`: each block
\* is combined with the cipher block before it, the first with the IV
RECURSIVE cbc_encrypt_ecb(_, _, _)
cbc_encrypt_ecb(key, iv, buf) ==
    IF buf = <<>> THEN <<>>
    ELSE encrypt_block(key, SubSeq(buf, 1, 16))
           \o cbc_encrypt_ecb(key, iv, SubSeq(buf, 17, Len(buf)))
RECURSIVE cbc_encrypt(_, _, _)
cbc_encrypt(key, iv, buf) ==
    IF buf = <<>> THEN <<>>
    ELSE LET c == encrypt_block(key, strxor(SubSeq(buf, 1, 16), iv))
         IN  c \o cbc_encrypt(key, c, SubSeq(buf, 17, Len(buf)))

\* AES.new refuses a key that is not 16, 24 or 32 bytes long and an IV
\* that is not 16 bytes long
ValueError == <<-1>>
AES_new_ok(key, iv) == Len(key) \in {16, 24, 32} /\ Len(iv) = block_size

\* bytes.hex(): two digits a byte, 0-9 and a-f
hexdigit(n) == IF n < 10 THEN 48 + n ELSE 87 + n
RECURSIVE hex(_)
hex(bytes) ==
    IF bytes = <<>> THEN <<>>
    ELSE <<hexdigit(Head(bytes) \div 16), hexdigit(Head(bytes) % 16)>> \o hex(Tail(bytes))

\* hanna_encrypt with the IV it drew; 58 is ":"
hanna_encrypt(plaintext, iv) ==
    LET key == b64decode(key_base64)
        padded == pad(str_encode(plaintext), block_size)
    IN  IF AES_new_ok(key, str_encode(iv))
        THEN iv \o <<58>> \o hex(cbc_encrypt(key, str_encode(iv), padded))
        ELSE ValueError

\* phase "idle", "done"; the plaintext given, the IV drawn, what was returned
NoCipher == [phase |-> "idle", plaintext |-> <<>>, iv |-> <<>>, output |-> <<>>]

\* ------------------------------------------------------------ the steps
PollInit ==
    /\ entry_state = "not_loaded"
    /\ hass_data = {}
    /\ platforms = FALSE
    /\ token = NoToken
    /\ data = NoData
    /\ last_exception = NoException
    /\ pc = "idle"
    /\ request = NoRequest
    /\ devices = [list |-> <<>>, cycle |-> 0]
    /\ cycle = 0
    /\ call = NoCall
    /\ healthy = FALSE
    /\ crypto \in BOOLEAN

Init ==
    /\ PollInit
    /\ timed = NoTimed
    /\ options = NoOptions
    /\ flow = NoFlow
    /\ cipher = NoCipher


LoginRequest == [url |-> "/auth", op |-> "Login", bearer |-> NoToken, device_ids |-> <<>>]
DataRequest_stale(op_, ids, tok) ==
    [url |-> "/graphql", op |-> op_, bearer |-> Bearer(token), device_ids |-> ids]

\* the headers are built from self.token when the request is built
DataRequest(op_, ids, tok) ==
    [url |-> "/graphql", op |-> op_, bearer |-> Bearer(tok), device_ids |-> ids]

EnterCall_always_logs_in(op_, ids, tok) ==
    /\ request' = LoginRequest
    /\ pc' = "await_auth"
    /\ call' = [NewCall(op_, ids) EXCEPT !.logins = 1]

EnterCall_unauthenticated(op_, ids, tok) ==
    /\ request' = DataRequest(op_, ids, tok)
    /\ pc' = "await_data"
    /\ call' = [NewCall(op_, ids) EXCEPT !.reqs = 1]

\* Entry of get_devices / get_device_readings with self.token = tok:
\* `if not self.token: await self.authenticate()`, else the request is sent.
EnterCall(op_, ids, tok) ==
    /\ IF tok = NoToken
       THEN /\ request' = LoginRequest
            /\ pc' = "await_auth"
            /\ call' = [NewCall(op_, ids) EXCEPT !.logins = 1]
       ELSE /\ request' = DataRequest(op_, ids, tok)
            /\ pc' = "await_data"
            /\ call' = [NewCall(op_, ids) EXCEPT !.reqs = 1]

\* _async_update_data begins: `devices = await self.api.get_devices()`
BeginCycle(tok) ==
    /\ cycle' = 1 - cycle
    /\ last_exception' = NoException
    /\ devices' = [list |-> <<>>, cycle |-> 0]
    /\ EnterCall("get_devices", <<>>, tok)

AfterRefresh_ignores(ok) ==
    IF entry_state = "setup_in_progress"
    THEN /\ hass_data' = hass_data \cup {Entry}
         /\ entry_state' = entry_state
         /\ pc' = "forward"
    ELSE /\ hass_data' = hass_data
         /\ entry_state' = entry_state
         /\ pc' = "idle"

\* async_setup_entry after the first refresh, and the end of a later refresh
AfterRefresh(ok) ==
    IF entry_state = "setup_in_progress"
    THEN IF ok
         THEN /\ hass_data' = hass_data \cup {Entry}
              /\ entry_state' = entry_state
              /\ pc' = "forward"
         ELSE /\ hass_data' = hass_data         \* ConfigEntryNotReady is re-raised
              /\ entry_state' = "setup_retry"
              /\ pc' = "idle"
    ELSE /\ hass_data' = hass_data
         /\ entry_state' = entry_state
         /\ pc' = "idle"

FailCycle_clears(exc) ==
    /\ last_exception' = WrapException(exc)
    /\ data' = NoData
    /\ AfterRefresh(FALSE)
    /\ request' = NoRequest
    /\ devices' = [list |-> <<>>, cycle |-> 0]
    /\ UNCHANGED <<platforms, cycle>>

\* _async_update_data raises: the cycle fails, coordinator.data is kept
FailCycle(exc) ==
    /\ last_exception' = WrapException(exc)
    /\ data' = data
    /\ AfterRefresh(FALSE)
    /\ request' = NoRequest
    /\ devices' = [list |-> <<>>, cycle |-> 0]
    /\ UNCHANGED <<platforms, cycle>>

\* the client call raises exc
FailCall(exc) ==
    /\ call' = Ended(call.op, exc)
    /\ FailCycle(exc)

\* _async_update_data returns result: it becomes coordinator.data
Succeed(result) ==
    /\ last_exception' = NoException
    /\ data' = result
    /\ AfterRefresh(TRUE)
    /\ request' = NoRequest
    /\ devices' = [list |-> <<>>, cycle |-> 0]
    /\ UNCHANGED <<platforms, cycle>>

DataWhileFetching_early(devs) ==
    IF data.published THEN [data EXCEPT !.devices = devs, !.dcycle = cycle] ELSE data

\* coordinator.data while get_device_readings is pending
DataWhileFetching(devs) == data

Reauthenticate_keeps(r) ==
    /\ token' = token
    /\ request' = LoginRequest
    /\ pc' = "await_auth"
    /\ call' = [call EXCEPT !.logins = Bump(@), !.reauths = Bump(@), !.rejected = r.status]
    /\ UNCHANGED <<entry_state, hass_data, platforms, data, last_exception, devices, cycle>>

\* 401/403: `self.token = None`, then `await self.authenticate()`
Reauthenticate(r) ==
    /\ token' = NoToken
    /\ request' = LoginRequest
    /\ pc' = "await_auth"
    /\ call' = [call EXCEPT !.logins = Bump(@), !.reauths = Bump(@), !.rejected = r.status]
    /\ UNCHANGED <<entry_state, hass_data, platforms, data, last_exception, devices, cycle>>

crypto_import_unchecked(available) == TRUE

\* `try: from Crypto.Cipher import AES ... except ImportError: return False`:
\* authenticate goes on only when the import succeeds.  Python keeps an
\* imported module, so what the import does is the same for the whole run.
crypto_import(available) == available

\* async_setup_entry: a new coordinator (and API client) and its first refresh
SetupEntry ==
    /\ entry_state \in {"not_loaded", "setup_retry"}
    /\ pc = "idle"
    /\ token' = NoToken
    /\ data' = NoData
    /\ IF crypto_import(crypto)
       THEN /\ entry_state' = "setup_in_progress"
            /\ BeginCycle(NoToken)
       ELSE \* authenticate returns False at once, get_devices raises
            \* UpdateFailed and the first refresh fails, all without an await
            /\ entry_state' = "setup_retry"
            /\ cycle' = 1 - cycle
            /\ call' = Ended("get_devices", "UpdateFailed")
            /\ last_exception' = WrapException("UpdateFailed")
            /\ request' = NoRequest
            /\ pc' = "idle"
            /\ devices' = [list |-> <<>>, cycle |-> 0]
    /\ UNCHANGED <<hass_data, platforms, healthy, crypto, other_vars>>

\* A scheduled refresh of the loaded entry's coordinator.  What starts it is
\* the inherited DataUpdateCoordinator, which is outside this code: here a
\* refresh starts only when none is running.
Refresh ==
    /\ entry_state = "loaded"
    /\ pc = "idle"
    /\ BeginCycle(token)
    /\ UNCHANGED <<entry_state, hass_data, platforms, token, data, healthy, crypto,
                   other_vars>>

\* authenticate() ends; its caller goes on or raises UpdateFailed
AuthResponse(r) ==
    /\ pc = "await_auth"
    /\ UNCHANGED <<healthy, crypto, other_vars>>
    /\ LET out == authenticate_outcome(r)
           tok == authenticate(r) IN
       IF out.act = "raise"
       THEN /\ token' = token
            /\ FailCall(out.exc)
       ELSE IF tok # NoToken
       THEN /\ token' = tok
            /\ request' = DataRequest(call.op, call.device_ids, tok)
            /\ pc' = "await_data"
            /\ call' = [call EXCEPT !.reqs = Bump(@), !.issued = tok]
            /\ UNCHANGED <<entry_state, hass_data, platforms, data, last_exception,
                           devices, cycle>>
       ELSE /\ token' = token
            /\ FailCall("UpdateFailed")

NoDevices_only_none(out) == out.isNone

\* `if not devices:` on what get_devices returned
NoDevices(out) == out.isNone \/ out.value = <<>>

\* the response to the Devices query is handled
DevicesResponse(r) ==
    /\ pc = "await_data"
    /\ call.op = "get_devices"
    /\ UNCHANGED <<healthy, crypto, other_vars>>
    /\ LET out == get_devices(r) IN
       CASE out.act = "reauth" -> Reauthenticate(r)
         [] out.act = "raise" -> token' = token /\ FailCall(out.exc)
         [] out.act = "return" ->
            /\ token' = token
            /\ IF NoDevices(out)
               THEN /\ call' = Ended(call.op, "ok")
                    /\ Succeed(PollResult(<<>>, EmptyDict, cycle, cycle))
               ELSE IF ~HasDID(out.value)
               THEN /\ call' = Ended(call.op, "ok")
                    /\ FailCycle("KeyError")
               ELSE /\ devices' = [list |-> out.value, cycle |-> cycle]
                    /\ data' = DataWhileFetching(out.value)
                    /\ EnterCall("get_device_readings", device_ids(out.value), token)
                    /\ UNCHANGED <<entry_state, hass_data, platforms, last_exception, cycle>>

\* the response to the GetLastDeviceReading query is handled
ReadingsResponse(r) ==
    /\ pc = "await_data"
    /\ call.op = "get_device_readings"
    /\ UNCHANGED <<healthy, crypto, other_vars>>
    /\ LET out == get_device_readings(r) IN
       CASE out.act = "reauth" -> Reauthenticate(r)
         [] out.act = "raise" -> token' = token /\ FailCall(out.exc)
         [] out.act = "return" ->
            /\ token' = token
            /\ call' = Ended(call.op, "ok")
            /\ Succeed(PollResult(devices.list, out.value, devices.cycle, cycle))

\* `await hass.config_entries.async_forward_entry_setups(entry, PLATFORMS)`
ForwardEntrySetups ==
    /\ pc = "forward"
    /\ platforms' = TRUE
    /\ entry_state' = "loaded"
    /\ pc' = "idle"
    /\ UNCHANGED <<hass_data, token, data, last_exception, request, devices, cycle, call,
                   healthy, crypto, other_vars>>

UnloadEntry_pops_first ==
    /\ entry_state = "loaded"
    /\ pc = "idle"
    /\ hass_data' = hass_data \ {Entry}
    /\ \E unload_ok \in BOOLEAN :
        IF unload_ok
        THEN /\ platforms' = FALSE
             /\ entry_state' = "not_loaded"
        ELSE /\ entry_state' = "failed_unload"
             /\ UNCHANGED platforms
    /\ UNCHANGED <<token, data, last_exception, pc, request, devices, cycle, call, healthy,
                   crypto, other_vars>>

\* async_unload_entry
UnloadEntry ==
    /\ entry_state = "loaded"
    /\ pc = "idle"
    /\ \E unload_ok \in BOOLEAN :
        IF unload_ok
        THEN /\ hass_data' = hass_data \ {Entry}
             /\ platforms' = FALSE
             /\ entry_state' = "not_loaded"
        ELSE /\ entry_state' = "failed_unload"
             /\ UNCHANGED <<hass_data, platforms>>
    /\ UNCHANGED <<token, data, last_exception, pc, request, devices, cycle, call, healthy,
                   crypto, other_vars>>

\* The remote service comes into good order.  It answers anything before,
\* and as a service in good order does from then on.
ServiceRecovers ==
    /\ ~healthy
    /\ healthy' = TRUE
    /\ UNCHANGED <<entry_state, hass_data, platforms, token, data, last_exception, pc,
                   request, devices, cycle, call, crypto, other_vars>>

\* the login request is answered, times out or fails in the transport
Authenticated ==
    \E r \in (IF healthy THEN AcceptedLogins ELSE LoginResponses) : AuthResponse(r)
\* the same for the Devices query and for the GetLastDeviceReading query
DevicesAnswered ==
    \E r \in (IF healthy THEN ValidDevices ELSE DevicesResponses) : DevicesResponse(r)
ReadingsAnswered ==
    \E r \in (IF healthy THEN ValidReadings ELSE ReadingsResponses) : ReadingsResponse(r)

Next ==
    \/ ServiceRecovers
    \/ SetupEntry
    \/ Refresh
    \/ Authenticated
    \/ DevicesAnswered
    \/ ReadingsAnswered
    \/ ForwardEntrySetups
    \/ UnloadEntry

Spec == Init /\ [][Next]_vars

\* Every request gets a response (possibly a failure) and the event loop
\* runs the code that waits for it; nothing makes a refresh or a setup start.
FairSpec ==
    /\ Spec
    /\ WF_vars(Authenticated)
    /\ WF_vars(DevicesAnswered)
    /\ WF_vars(ReadingsAnswered)
    /\ WF_vars(ForwardEntrySetups)


\* ------------------------------------------ a client call against the clock
\* One call of get_devices (get_device_readings is alike) with the clock
\* and the timeout blocks it is in.  The re-authentication and the retry run
\* inside the `async with async_timeout.timeout(10)` of the request that was
\* rejected, so their own blocks nest in it.
Timer(kind, deadline) == [kind |-> kind, deadline |-> deadline]
Push(stack, t) == Append(stack, t)
Pop(stack) == SubSeq(stack, 1, Len(stack) - 1)
Earliest(stack) ==
    CHOOSE d \in {stack[i].deadline : i \in 1..Len(stack)} :
        \A i \in 1..Len(stack) : d <= stack[i].deadline
\* the timeout that fires: of those that are due, the one entered first
Firing(stack) ==
    CHOOSE i \in 1..Len(stack) :
        /\ stack[i].deadline = Earliest(stack)
        /\ \A j \in 1..(i - 1) : stack[j].deadline # Earliest(stack)

InFlight == {"login", "data", "relogin"}
Waiting == timed.phase \in InFlight /\ timed.now < Earliest(timed.stack)

\* the call is entered, with a token held or without
TimedCall ==
    /\ timed.phase = "idle"
    /\ \E held \in BOOLEAN :
        timed' = IF held
                 THEN [timed EXCEPT !.phase = "data", !.sent = timed.now, !.reqs = 1,
                         !.outcome = "pending",
                         !.stack = <<Timer("data", timed.now + DataTimeout)>>]
                 ELSE [timed EXCEPT !.phase = "login", !.sent = timed.now,
                         !.outcome = "pending",
                         !.stack = <<Timer("auth", timed.now + AuthTimeout)>>]
    /\ UNCHANGED timed_frame

\* a time unit passes; no deadline is passed without its timeout firing
TimedTick ==
    /\ Waiting
    /\ timed.now < MaxTime
    /\ timed' = [timed EXCEPT !.now = @ + 1]
    /\ UNCHANGED timed_frame

\* the login is answered in time: authenticate leaves its timeout block
TimedLoginAnswered ==
    /\ Waiting
    /\ timed.phase \in {"login", "relogin"}
    /\ \E ok \in BOOLEAN :
        timed' = IF ok
                 THEN [timed EXCEPT !.phase = "data", !.sent = timed.now, !.reqs = @ + 1,
                         !.stack = Push(Pop(@), Timer("data", timed.now + DataTimeout))]
                 ELSE [timed EXCEPT !.phase = "done", !.outcome = "UpdateFailed",
                         !.stack = <<>>]
    /\ UNCHANGED timed_frame

\* the data request is answered in time: 200 with the payload, another
\* failure, or 401/403, after which authenticate is called where it stands
TimedDataAnswered ==
    /\ Waiting
    /\ timed.phase = "data"
    /\ \E answer \in {"ok", "failed", "rejected"} :
        /\ answer = "rejected" => timed.reqs < MaxRequests
        /\ timed' = CASE answer = "ok" ->
                            [timed EXCEPT !.phase = "done", !.outcome = "ok", !.stack = <<>>]
                       [] answer = "failed" ->
                            [timed EXCEPT !.phase = "done", !.outcome = "UpdateFailed",
                               !.stack = <<>>]
                       [] answer = "rejected" ->
                            [timed EXCEPT !.phase = "relogin", !.sent = timed.now,
                               !.stack = Push(@, Timer("auth", timed.now + AuthTimeout))]
    /\ UNCHANGED timed_frame

\* A timeout fires.  The blocks inside it are left by the cancellation; its
\* own frame turns it into `return False` (authenticate, whose caller
\* raises UpdateFailed) or into UpdateFailed (`except asyncio.TimeoutError`),
\* which no frame around it catches.
TimedExpire ==
    /\ timed.phase \in InFlight
    /\ timed.now = Earliest(timed.stack)
    /\ timed' = [timed EXCEPT !.phase = "done", !.outcome = "UpdateFailed",
                    !.waited = timed.now - timed.sent,
                    !.level = Firing(timed.stack),
                    !.stack = <<>>]
    /\ UNCHANGED timed_frame

TimedNext ==
    \/ TimedCall
    \/ TimedTick
    \/ TimedLoginAnswered
    \/ TimedDataAnswered
    \/ TimedExpire

TimedSpec == Init /\ [][TimedNext]_vars

\* -------------------------------------------------------- the options flow
\* OptionsFlowHandler.async_step_init without input: the form is shown
OptionsFormShown ==
    /\ options' = [options EXCEPT !.result = "form", !.submitted = Absent]
    /\ UNCHANGED options_frame

\* A submission: what the schema refuses never reaches async_step_init;
\* what it lets through is stored as the entry's options, as validated.
OptionsStepInit ==
    /\ \E v \in Submitted :
        LET user_input == options_schema(options.stored, v) IN
        options' = IF user_input.valid
                   THEN [options EXCEPT !.result = "create_entry", !.submitted = v,
                           !.stored = {<<CONF_UPDATE_INTERVAL, user_input.value>>}]
                   ELSE [options EXCEPT !.result = "invalid", !.submitted = v]
    /\ UNCHANGED options_frame

\* HannaCloudCoordinator.__init__, at each setup of the entry
CoordinatorInit ==
    /\ options' = [options EXCEPT !.interval = update_interval(options.stored),
                      !.made = 1 - @]
    /\ UNCHANGED options_frame

OptionsNext ==
    \/ OptionsFormShown
    \/ OptionsStepInit
    \/ CoordinatorInit

OptionsSpec == Init /\ [][OptionsNext]_vars

\* ------------------------------------------------ the configuration flow
\* async_step_user without input: the empty form
StepUserForm ==
    /\ flow' = [flow EXCEPT !.result = "form", !.errors = "none", !.email = "none",
                   !.response = NoResponse, !.raised = "none"]
    /\ UNCHANGED flow_frame

\* async_step_user with the credentials submitted, r being the answer to
\* the login that validate_input sends
StepUser ==
    /\ \E email \in Emails, r \in LoginResponses :
        LET info == validate_input(crypto, r) IN
        flow' = IF info.act = "raise"
                THEN [flow EXCEPT !.result = "form", !.errors = base_error(info.exc),
                        !.email = email, !.response = r, !.raised = info.exc]
                ELSE IF unique_id_configured(flow.entries, email)
                THEN [flow EXCEPT !.result = "abort", !.errors = "none",
                        !.email = email, !.response = r, !.raised = "none"]
                ELSE [flow EXCEPT !.result = "create_entry", !.errors = "none",
                        !.email = email, !.response = r, !.raised = "none",
                        !.entries = Append(@, email)]
    /\ UNCHANGED flow_frame

FlowNext ==
    \/ StepUserForm
    \/ StepUser

FlowSpec == Init /\ [][FlowNext]_vars

\* ------------------------------------------------------------- encryption
CipherInit ==
    /\ PollInit
    /\ timed = NoTimed
    /\ options = NoOptions
    /\ flow = NoFlow
    /\ cipher \in {[NoCipher EXCEPT !.plaintext = p] : p \in Plaintexts}

\* one call of hanna_encrypt, on the email or on the password
HannaEncrypt ==
    /\ cipher.phase = "idle"
    /\ \E iv \in IVs :
        cipher' = [cipher EXCEPT !.phase = "done", !.iv = iv,
                     !.output = hanna_encrypt(cipher.plaintext, iv)]
    /\ UNCHANGED cipher_frame

CipherNext == HannaEncrypt

CipherSpec == CipherInit /\ [][CipherNext]_vars

\* ============================================================ properties
\* A property of what the handling of a response r does is an action
\* property "for every r, the step is not the handling of r or it does
\* that", written with the handling last where that is cheaper to evaluate.
AwaitStates == {"await_auth", "await_data"}
Keys(dict) == DOMAIN dict
DeviceIds(devs) == {devs[i].DID : i \in 1..Len(devs)}

\* a step that ends a refresh cycle in a failure
FailStep ==
    /\ pc \in AwaitStates
    /\ pc' \notin AwaitStates
    /\ (call'.outcome # "ok" \/ last_exception' # NoException)

\* a 200 response whose body carries the list l in the queried field
Valid200(r) == r.kind = "http" /\ r.status = 200 /\ r.body.json = "object"
               /\ r.body.data = "object" /\ r.body.field = "list"

\* C1: one call of get_devices / get_device_readings re-authenticates at
\* most once and sends at most two data requests.
C1_AtMostOneRetry == call.reauths <= 1 /\ call.reqs <= 2

\* C2: a refresh cycle that fails (in get_devices, in get_device_readings
\* or in between) leaves coordinator.data as it was, and once a cycle has
\* succeeded coordinator.data is the PollResult of that cycle.
C2_FailedCycleKeepsData ==
    /\ [][FailStep => (data' = data)]_vars
    /\ [](pc \notin AwaitStates /\ call.outcome = "ok" /\ last_exception = NoException
            => data.published /\ data.dcycle = cycle /\ data.rcycle = cycle)

C2_Witness ==
    /\ entry_state = "loaded"
    /\ pc = "idle"
    /\ call.op = "get_device_readings"
    /\ call.outcome = "UpdateFailed"
    /\ last_exception.kind = "UpdateFailed"
    /\ data.published
    /\ data.rcycle # cycle

\* C3: a failing first refresh publishes nothing and ends the setup not
\* ready: no coordinator registered, no platform set up; and whenever the
\* coordinator is registered and the platform set up, a PollResult has been
\* published.
C3_FirstRefreshFailureNotReady ==
    /\ [][entry_state = "setup_in_progress" /\ FailStep
            => /\ entry_state' = "setup_retry"
               /\ Entry \notin hass_data'
               /\ ~platforms'
               /\ ~data'.published]_vars
    /\ [](entry_state = "setup_retry"
            => Entry \notin hass_data /\ ~platforms /\ ~data.published)
    /\ [](Entry \in hass_data => data.published)

C3_Witness ==
    /\ entry_state = "setup_retry"
    /\ last_exception.kind = "UpdateFailed"
    /\ call.outcome = "ClientError"
    /\ ~data.published

\* C4: the devices and the readings of the published PollResult were
\* fetched in the same cycle, and coordinator.data does not change while a
\* cycle is in progress (a re-authentication included).
C4_PublishedResultIsOneCycle ==
    /\ [](data.published => data.dcycle = data.rcycle)
    /\ [][(pc \in AwaitStates /\ pc' \in AwaitStates) => (data' = data)]_vars

C4_Witness ==
    /\ pc = "await_auth"
    /\ call.op = "get_device_readings"
    /\ call.reauths = 1
    /\ data.published
    /\ data.dcycle # cycle
    /\ devices.cycle = cycle
    /\ devices.list # data.devices

\* C5: every key of the published readings is the DID of a published device.
C5_ReadingsKeysAreDevices ==
    data.published => Keys(data.readings) \subseteq DeviceIds(data.devices)

\* C6: get_devices whose request is answered 401/403 clears the token and
\* logs in again; when that login succeeds the same request is sent once
\* more with the token just obtained, and when that request is answered by
\* a valid 200 the call returns the payload of that response.
C6_RetryAfterReauth ==
    [][/\ (pc = "await_data" /\ call.op = "get_devices")
            => \A r \in DevicesResponses :
                 (r.kind = "http" /\ r.status \in {401, 403} /\ DevicesResponse(r))
                 => /\ token' = NoToken
                    /\ request' = LoginRequest
                    /\ call'.reauths = Bump(call.reauths)
                    /\ call'.reqs = call.reqs
       /\ (pc = "await_auth" /\ call.op = "get_devices" /\ call.reauths = 1)
            => \A r \in LoginResponses :
                 (authenticate(r) # NoToken /\ AuthResponse(r))
                 => /\ token' = authenticate(r)
                    /\ request'.url = "/graphql"
                    /\ request'.op = "get_devices"
                    /\ request'.bearer = authenticate(r)
                    /\ call'.reqs = 2
                    /\ call'.reauths = 1
       /\ (pc = "await_data" /\ call.op = "get_devices" /\ call.reauths = 1 /\ call.reqs = 2)
            => \A r \in DevicesResponses :
                 (Valid200(r) /\ DevicesResponse(r))
                 => /\ request.bearer = call.issued
                    /\ request.bearer = token
                    /\ token' = token
                    /\ (r.body.list # <<>> /\ HasDID(r.body.list)
                          => /\ devices'.list = r.body.list
                             /\ request'.op = "get_device_readings"
                             /\ request'.device_ids = device_ids(r.body.list))
                    /\ (r.body.list = <<>>
                          => /\ call'.outcome = "ok"
                             /\ data'.published
                             /\ data'.devices = <<>>)
      ]_vars

\* the retried request is in flight, and a valid 200 is among its answers
C6_Witness ==
    /\ pc = "await_data"
    /\ call.op = "get_devices"
    /\ call.reauths = 1
    /\ call.reqs = 2
    /\ call.rejected = 401
    /\ request.bearer = call.issued
    /\ data.published
    /\ ENABLED (\E r \in DevicesResponses :
                    DevicesResponse(r) /\ Valid200(r) /\ r.body.list # <<>>)

\* C7: every call, and so every cycle, ends after finitely many HTTP
\* exchanges when every request gets a response (FairSpec), whatever the
\* responses are.
C7_CallCompletes == (pc \in AwaitStates) ~> (pc \notin AwaitStates)

\* C9: the only exception that leaves get_devices and get_device_readings
\* is UpdateFailed.
C9_ClientRaisesOnlyUpdateFailed ==
    call.outcome \in {"none", "pending", "ok", "UpdateFailed"}

\* C10: whatever fails in a cycle, _async_update_data fails with
\* UpdateFailed carrying the cause.
C10_CoordinatorRaisesOnlyUpdateFailed ==
    /\ last_exception.kind \in {"none", "UpdateFailed"}
    /\ last_exception.kind = "UpdateFailed"
         => /\ last_exception.cause \in ExceptionKinds
            /\ (call.outcome # "ok" /\ pc \notin AwaitStates
                  => last_exception.cause = call.outcome)
    /\ (pc \notin AwaitStates /\ call.outcome \in ExceptionKinds)
         => last_exception.kind = "UpdateFailed"

C10_Witness ==
    /\ pc = "idle"
    /\ call.outcome = "TypeError"
    /\ last_exception = [kind |-> "UpdateFailed", cause |-> "TypeError"]

\* a response with a status other than 200, 401 and 403
OtherStatus(r) == r.kind = "http" /\ r.status \notin {200, 401, 403}
\* a 200 response whose JSON object carries an "errors" array
ErrorsResponse(r) ==
    r.kind = "http" /\ r.status = 200 /\ r.body.json = "object" /\ r.body.errors

\* C11: a data request answered by a status other than 200/401/403, or by
\* a 200 GraphQL errors response (whatever its "data" holds), makes the call
\* fail with UpdateFailed: nothing is returned, nothing is published.
C11_ErrorsResponseFails ==
    [][/\ (pc = "await_data" /\ call.op = "get_devices")
            => \A r \in DevicesResponses :
                 ((OtherStatus(r) \/ ErrorsResponse(r)) /\ DevicesResponse(r))
                 => /\ call'.outcome = "UpdateFailed"
                    /\ pc' \notin AwaitStates
                    /\ data' = data
       /\ (pc = "await_data" /\ call.op = "get_device_readings")
            => \A r \in ReadingsResponses :
                 ((OtherStatus(r) \/ ErrorsResponse(r)) /\ ReadingsResponse(r))
                 => /\ call'.outcome = "UpdateFailed"
                    /\ pc' \notin AwaitStates
                    /\ data' = data
      ]_vars

\* C12: when the login that follows a 401/403 fails, the call fails with
\* UpdateFailed, no further request is sent and no token is held: the
\* rejected token was dropped before the login and is not restored.
C12_ReauthFailureFails ==
    /\ [](pc = "await_auth" /\ call.reauths >= 1 => token = NoToken)
    /\ [][(pc = "await_auth" /\ call.reauths >= 1)
            => \A r \in LoginResponses :
                 \/ authenticate(r) # NoToken
                 \/ /\ call'.outcome = "UpdateFailed"
                    /\ last_exception' = WrapException("UpdateFailed")
                    /\ pc' \notin AwaitStates
                    /\ request' = NoRequest
                    /\ token' = NoToken
                 \/ ~AuthResponse(r)]_vars

\* the login after a 403 to GetLastDeviceReading is in flight and can fail
C12_Witness ==
    /\ pc = "await_auth"
    /\ call.op = "get_device_readings"
    /\ call.reauths = 1
    /\ call.rejected = 403
    /\ token = NoToken
    /\ ENABLED (\E r \in LoginResponses : authenticate(r) = NoToken /\ AuthResponse(r))

\* a step in which get_devices or get_device_readings is entered
CallStarts ==
    /\ call'.outcome = "pending"
    /\ (call.outcome # "pending" \/ call'.op # call.op)

\* C13: a call entered while no token is held sends the login and no data
\* request; when that login fails the call fails with UpdateFailed and
\* nothing has been sent to /graphql, and when it succeeds the first data
\* request follows.
C13_AuthenticatesFirst ==
    /\ [][(CallStarts /\ token' = NoToken)
            => /\ request' = LoginRequest
               /\ pc' = "await_auth"
               /\ call'.logins = 1
               /\ call'.reqs = 0]_vars
    /\ [][(pc = "await_auth" /\ call.reauths = 0)
            => /\ call.reqs = 0
               /\ \A r \in LoginResponses :
                    AuthResponse(r)
                    => IF authenticate(r) = NoToken
                       THEN /\ call'.outcome = "UpdateFailed"
                            /\ last_exception' = WrapException("UpdateFailed")
                            /\ request' = NoRequest
                            /\ pc' \notin AwaitStates
                       ELSE /\ request'.url = "/graphql"
                            /\ request'.op = call.op
                            /\ call'.reqs = 1]_vars

\* a scheduled refresh found no token and its first login is in flight
C13_Witness ==
    /\ entry_state = "loaded"
    /\ pc = "await_auth"
    /\ call.op = "get_devices"
    /\ call.logins = 1
    /\ call.reqs = 0
    /\ token = NoToken
    /\ request = LoginRequest

\* a login response that is a failure: a timeout, a transport error, a
\* status other than 200, a body that is no JSON object, an errors payload,
\* or a payload without a usable token
LoginFailure(r) ==
    \/ r.kind # "http"
    \/ r.status # 200
    \/ r.body.json # "object"
    \/ r.body.errors
    \/ r.body.data # "object"
    \/ r.body.field \notin {"list", "object"}
    \/ r.body.token \in {AbsentToken, EmptyToken}

\* C14: authenticate returns for every response, and returns False for
\* every failure; so a call that ends while it waits for authenticate ends
\* because its caller saw the False and raised UpdateFailed, never by
\* another exception.
C14_AuthenticateReturnsFalse ==
    /\ [](\A r \in LoginResponses :
            /\ authenticate_outcome(r).act = "return"
            /\ LoginFailure(r) => authenticate_outcome(r).value = NoToken)
    /\ [][(pc = "await_auth" /\ pc' \notin AwaitStates)
            => /\ call'.outcome = "UpdateFailed"
               /\ last_exception' = WrapException("UpdateFailed")
               /\ \E r \in LoginResponses : LoginFailure(r) /\ AuthResponse(r)]_vars

\* the first refresh of a setup ended because authenticate returned False
C14_Witness ==
    /\ entry_state = "setup_retry"
    /\ pc = "idle"
    /\ token = NoToken
    /\ call.outcome = "UpdateFailed"
    /\ last_exception = WrapException("UpdateFailed")

\* C15: authenticate writes the token only when it succeeds: after a failed
\* login the held token is what it was, after a successful one it is the
\* (non-empty) token of that login response.
C15_TokenWrittenOnSuccess ==
    [][(pc = "await_auth")
         => \A r \in LoginResponses :
              \/ IF LoginFailure(r)
                 THEN token' = token
                 ELSE /\ token' = r.body.token
                      /\ token' \in Tokens
                      /\ call'.issued = r.body.token
              \/ ~AuthResponse(r)]_vars

\* a re-authentication stored the token t2 of its login response
C15_Witness ==
    /\ pc = "await_data"
    /\ call.reauths = 1
    /\ call.issued = "t2"
    /\ token = "t2"

\* a 200 login response without errors whose data.login is present
LoginPayload(r) ==
    /\ r.kind = "http" /\ r.status = 200
    /\ r.body.json = "object" /\ ~r.body.errors
    /\ r.body.data = "object"
    /\ r.body.field \in {"list", "object", "emptylist"}

\* C16: a login payload that is a list whose first element has a token, or
\* an object that has a token, makes authenticate succeed and store that
\* token; an empty list, and either shape with the token missing or empty,
\* make it fail.
C16_BothLoginShapes ==
    [][(pc = "await_auth")
         => \A r \in LoginResponses :
              \/ ~LoginPayload(r)
              \/ IF r.body.field \in {"list", "object"} /\ r.body.token \in Tokens
                 THEN /\ authenticate(r) = r.body.token
                      /\ token' = r.body.token
                      /\ pc' = "await_data"
                 ELSE /\ authenticate(r) = NoToken
                      /\ token' = token
                      /\ call'.outcome = "UpdateFailed"
              \/ ~AuthResponse(r)]_vars

\* a login is in flight, and its answers include the object shape with a
\* token, which is stored, and the empty list, which fails the call
C16_Witness ==
    /\ pc = "await_auth"
    /\ ENABLED (\E r \in LoginResponses :
                    /\ LoginPayload(r) /\ r.body.field = "object" /\ r.body.token = "t1"
                    /\ AuthResponse(r) /\ token' = "t1")
    /\ ENABLED (\E r \in LoginResponses :
                    /\ LoginPayload(r) /\ r.body.field = "emptylist"
                    /\ AuthResponse(r) /\ call'.outcome = "UpdateFailed")

\* C17: when get_devices returns the empty list the cycle ends there with
\* success and publishes the PollResult with no devices and no readings; a
\* GetLastDeviceReading request is only ever sent for a non-empty list.
C17_EmptyFleetPublished ==
    /\ [](request.op = "get_device_readings"
            => /\ devices.list # <<>>
               /\ devices.cycle = cycle
               /\ request.device_ids = device_ids(devices.list))
    /\ [][(pc = "await_data" /\ call.op = "get_devices")
            => \A r \in DevicesResponses :
                 (Valid200(r) /\ r.body.list = <<>> /\ DevicesResponse(r))
                 => /\ data' = PollResult(<<>>, EmptyDict, cycle, cycle)
                    /\ last_exception' = NoException
                    /\ pc' \notin AwaitStates
                    /\ request' = NoRequest
                    /\ call' = Ended("get_devices", "ok")]_vars

\* a refresh of the loaded entry has just published the empty PollResult
C17_Witness ==
    /\ entry_state = "loaded"
    /\ pc = "idle"
    /\ call = Ended("get_devices", "ok")
    /\ last_exception = NoException
    /\ data = PollResult(<<>>, EmptyDict, cycle, cycle)

\* the position of the last record of l that carries the identifier d
LastIndex(l, d) ==
    CHOOSE i \in 1..Len(l) :
        l[i].DID = d /\ \A j \in (i + 1)..Len(l) : l[j].DID # d

\* C18: the mapping get_device_readings returns for a 200 response with a
\* list of readings has exactly the identifiers of the list's records as
\* keys, and under each key the last record that carries it; the cycle
\* publishes that mapping as its readings, and the handling of such a
\* response always ends the call with success.
C18_LastReadingWins ==
    /\ []((pc = "await_data" /\ call.op = "get_device_readings")
            => \A r \in ReadingsResponses :
                 Valid200(r)
                 => LET l == r.body.list
                        out == get_device_readings(r) IN
                    /\ out.act = "return"
                    /\ ~out.isNone
                    /\ Keys(out.value) = {l[i].DID : i \in 1..Len(l)}
                    /\ \A d \in Keys(out.value) : out.value[d] = l[LastIndex(l, d)])
    /\ [][(pc = "await_data" /\ call.op = "get_device_readings")
            => \/ /\ call'.outcome = "ok"
                  /\ data'.published
                  /\ \E r \in ReadingsResponses :
                       /\ get_device_readings(r).act = "return"
                       /\ data'.readings = get_device_readings(r).value
                       /\ ReadingsResponse(r)
               \/ \A r \in ReadingsResponses :
                    ~Valid200(r) \/ ~ReadingsResponse(r)]_vars

\* the response held two records of device A: the second one is published
C18_Witness ==
    /\ data.published
    /\ Keys(data.readings) = {"A"}
    /\ data.readings["A"] = [DID |-> "A", DT |-> 2]

\* a step that sends a request to /graphql
SendsDataRequest == request'.url = "/graphql" /\ request' # request

\* C19: a request to /graphql carries the token the client holds when it
\* is sent, and holds while it is in flight, and that token is never the
\* absent one; the request sent after a login of the call carries the token
\* that login obtained.
C19_BearerIsHeldToken ==
    /\ [](request.url = "/graphql"
            => /\ pc = "await_data"
               /\ token \in Tokens
               /\ request.bearer = token
               /\ (call.logins >= 1 => request.bearer = call.issued))
    /\ [][SendsDataRequest
            => /\ token' \in Tokens
               /\ request'.bearer = token'
               /\ (pc = "await_auth"
                     => \A r \in LoginResponses :
                          AuthResponse(r) => request'.bearer = r.body.token)]_vars

\* GetLastDeviceReading, rejected and sent again after a login that
\* obtained t2, is in flight with t2
C19_Witness ==
    /\ pc = "await_data"
    /\ request.op = "get_device_readings"
    /\ call.reauths = 1
    /\ call.rejected = 401
    /\ request.bearer = "t2"
    /\ token = "t2"

\* the cycle in progress, or the last one, has published its PollResult
FreshlyPublished ==
    /\ last_exception = NoException
    /\ data.published
    /\ data.dcycle = cycle
    /\ data.rcycle = cycle

\* C20: a failed cycle leaves the coordinator idle with no request in
\* flight, and once the remote service is in good order (it accepts the
\* login and answers the queries with valid 200 responses) every cycle,
\* whatever the failed cycles before it left behind, ends by publishing its
\* own PollResult.
C20_RecoversAfterFailures ==
    /\ [](entry_state \in {"loaded", "setup_retry"} /\ last_exception # NoException
            => pc = "idle" /\ request = NoRequest)
    /\ (healthy /\ pc \in AwaitStates) ~> (pc \notin AwaitStates /\ FreshlyPublished)

\* the cycle before this one failed and left no token; this one has sent
\* its login to the service, which is in good order now
C20_Witness ==
    /\ healthy
    /\ entry_state = "loaded"
    /\ pc = "await_auth"
    /\ token = NoToken
    /\ data.published
    /\ data.rcycle = cycle

\* C21: when Crypto cannot be imported authenticate fails before it sends
\* anything: no request is ever in flight and no token is ever stored, and
\* the data fetch that called it (the first refresh of a setup: nothing
\* else can call it then) fails with UpdateFailed and sends no data request.
C21_NoCryptoNoRequest ==
    /\ [](~crypto => /\ request = NoRequest
                     /\ pc = "idle"
                     /\ token = NoToken
                     /\ ~data.published
                     /\ entry_state \in {"not_loaded", "setup_retry"})
    /\ [][(~crypto /\ cycle' # cycle)
            => /\ call' = Ended("get_devices", "UpdateFailed")
               /\ last_exception' = WrapException("UpdateFailed")
               /\ entry_state' = "setup_retry"
               /\ request' = NoRequest
               /\ token' = NoToken]_vars

\* a setup has failed in its first refresh because of the missing import
C21_Witness ==
    /\ ~crypto
    /\ entry_state = "setup_retry"
    /\ call = Ended("get_devices", "UpdateFailed")
    /\ last_exception = WrapException("UpdateFailed")
    /\ cycle = 1

\* C22: the request in flight is abandoned when its own timeout has run
\* from the moment it was sent: 15 units for a login, 10 for a data
\* request, and when a timeout abandoned a request, that request had
\* waited its own 15 or 10 units.
C22_OwnTimeoutPerRequest ==
    /\ timed.phase \in {"login", "relogin"}
         => Earliest(timed.stack) = timed.sent + AuthTimeout
    /\ timed.phase = "data"
         => Earliest(timed.stack) = timed.sent + DataTimeout
    /\ (timed.phase = "done" /\ timed.level > 0)
         => timed.waited \in {AuthTimeout, DataTimeout}

\* C23 as amended: a coordinator made while no update interval is stored
\* refreshes every 5 minutes, and every interval in use is a whole number
\* of minutes from 1 to 60.  A submitted number is accepted exactly when,
\* its fraction dropped, it is from 1 to 60, and that whole number is what
\* is stored: numbers below 1 and numbers of 61 and more are refused, store
\* nothing and never become the interval.
C23_IntervalInRange ==
    /\ [](options.interval # 0 =>
            \E m \in MinInterval..MaxInterval : options.interval = 60 * m)
    /\ [](\A item \in options.stored :
            item[1] = CONF_UPDATE_INTERVAL /\ item[2] \in MinInterval..MaxInterval)
    /\ []((options.submitted.kind = "number" /\ options.result = "create_entry") =>
            /\ 2 * MinInterval <= options.submitted.halves
            /\ options.submitted.halves < 2 * (MaxInterval + 1)
            /\ \E m \in MinInterval..MaxInterval :
                 /\ options.stored = {<<CONF_UPDATE_INTERVAL, m>>}
                 /\ 2 * m <= options.submitted.halves
                 /\ options.submitted.halves < 2 * (m + 1))
    /\ []((options.submitted.kind = "number" /\ options.result = "invalid") =>
            \/ options.submitted.halves < 2 * MinInterval
            \/ options.submitted.halves >= 2 * (MaxInterval + 1))
    /\ [][options'.made # options.made =>
            options'.interval = IF options.stored = {}
                                THEN 300
                                ELSE 60 * (CHOOSE item \in options.stored : TRUE)[2]]_vars
    /\ [][options'.result = "invalid" => options'.stored = options.stored]_vars

\* a number between 60 and 61 was accepted and a coordinator runs on it
C23_Witness ==
    /\ options.submitted = Number(2 * MaxInterval + 1)
    /\ options.result = "create_entry"
    /\ options.stored = {<<CONF_UPDATE_INTERVAL, MaxInterval>>}
    /\ options.interval = 60 * MaxInterval

\* C23 as stated: every submitted value below 1 or above 60 is refused.
C23_AboveSixtyRejected ==
    (/\ options.submitted.kind = "number"
     /\ options.result \in {"create_entry", "invalid"}
     /\ \/ options.submitted.halves < 2 * MinInterval
        \/ options.submitted.halves > 2 * MaxInterval)
        => options.result = "invalid"

\* What the receiver of a login does with an encrypted field: the inverse
\* of each step of hanna_encrypt, Undecodable where a step has no inverse.
Undecodable == <<-2>>
IsAlnum(c) == (48 <= c /\ c <= 57) \/ (65 <= c /\ c <= 90) \/ (97 <= c /\ c <= 122)
IsHexDigit(c) == (48 <= c /\ c <= 57) \/ (65 <= c /\ c <= 70) \/ (97 <= c /\ c <= 102)
hexvalue(c) == IF c <= 57 THEN c - 48 ELSE IF c <= 70 THEN c - 55 ELSE c - 87
fromhex(text) == [i \in 1..(Len(text) \div 2) |->
                    16 * hexvalue(text[2 * i - 1]) + hexvalue(text[2 * i])]
RECURSIVE cbc_decrypt(_, _, _)
cbc_decrypt(key, iv, buf) ==
    IF buf = <<>> THEN <<>>
    ELSE strxor(decrypt_block(key, SubSeq(buf, 1, 16)), iv)
           \o cbc_decrypt(key, SubSeq(buf, 1, 16), SubSeq(buf, 17, Len(buf)))
CanUnpad(buf) ==
    /\ Len(buf) >= block_size
    /\ Len(buf) % block_size = 0
    /\ buf[Len(buf)] \in 1..block_size
    /\ \A i \in (Len(buf) - buf[Len(buf)] + 1)..Len(buf) : buf[i] = buf[Len(buf)]
unpad(buf) == SubSeq(buf, 1, Len(buf) - buf[Len(buf)])
\* bytes.decode(): the code points of well-formed UTF-8
utf8_width(b) == IF b < 128 THEN 1 ELSE IF b < 224 THEN 2 ELSE IF b < 240 THEN 3 ELSE 4
RECURSIVE CanDecode(_)
CanDecode(bytes) ==
    \/ bytes = <<>>
    \/ /\ Head(bytes) < 128 \/ (192 <= Head(bytes) /\ Head(bytes) < 248)
       /\ utf8_width(Head(bytes)) <= Len(bytes)
       /\ \A i \in 2..utf8_width(Head(bytes)) : bytes[i] \in 128..191
       /\ CanDecode(SubSeq(bytes, utf8_width(Head(bytes)) + 1, Len(bytes)))
RECURSIVE str_decode(_)
str_decode(bytes) ==
    IF bytes = <<>> THEN <<>>
    ELSE LET w == utf8_width(Head(bytes))
             lead == IF w = 1 THEN Head(bytes)
                     ELSE IF w = 2 THEN Head(bytes) - 192
                     ELSE IF w = 3 THEN Head(bytes) - 224
                     ELSE Head(bytes) - 240
             cp == IF w = 1 THEN lead
                   ELSE IF w = 2 THEN 64 * lead + (bytes[2] - 128)
                   ELSE IF w = 3 THEN 4096 * lead + 64 * (bytes[2] - 128) + (bytes[3] - 128)
                   ELSE 262144 * lead + 4096 * (bytes[2] - 128) + 64 * (bytes[3] - 128)
                          + (bytes[4] - 128)
         IN  <<cp>> \o str_decode(SubSeq(bytes, w + 1, Len(bytes)))
WellFormed(out) ==
    /\ Len(out) > 17
    /\ \A i \in 1..16 : IsAlnum(out[i])
    /\ out[17] = 58
    /\ \A i \in 18..Len(out) : IsHexDigit(out[i])
    /\ (Len(out) - 17) % (2 * block_size) = 0
hanna_decrypt(out) ==
    IF ~WellFormed(out) THEN Undecodable
    ELSE LET key == b64decode(key_base64)
             padded == cbc_decrypt(key, str_encode(SubSeq(out, 1, 16)),
                                   fromhex(SubSeq(out, 18, Len(out))))
         IN  IF CanUnpad(padded) /\ CanDecode(unpad(padded))
             THEN str_decode(unpad(padded))
             ELSE Undecodable

\* C24: what hanna_encrypt returns is 16 letters and digits, a colon, and
\* a non-empty run of hexadecimal digits that makes whole 16-byte blocks
\* (32 digits each), whatever the plaintext.
C24_OutputFormat ==
    cipher.phase = "done" =>
        /\ Len(cipher.output) >= 17 + 2 * block_size
        /\ \A i \in 1..16 : IsAlnum(cipher.output[i])
        /\ cipher.output[17] = 58
        /\ \A i \in 18..Len(cipher.output) : IsHexDigit(cipher.output[i])
        /\ (Len(cipher.output) - 17) % 2 = 0
        /\ (Len(cipher.output) - 17) % (2 * block_size) = 0
        /\ Len(cipher.output) - 17
             = 2 * block_size * ((Len(str_encode(cipher.plaintext)) \div block_size) + 1)

\* a plaintext that fills a block exactly was encrypted: two blocks of
\* cipher text
C24_Witness ==
    /\ cipher.phase = "done"
    /\ Len(str_encode(cipher.plaintext)) = block_size
    /\ Len(cipher.output) = 17 + 4 * block_size

\* C25: decrypting the hexadecimal part of what hanna_encrypt returned,
\* with the embedded key, in CBC mode from the IV part, and removing the
\* PKCS#7 padding gives the plaintext back.
C25_RoundTrip ==
    cipher.phase = "done" => hanna_decrypt(cipher.output) = cipher.plaintext

\* a plaintext of several blocks with characters of more than one byte
\* made the round trip
C25_Witness ==
    /\ cipher.phase = "done"
    /\ Len(str_encode(cipher.plaintext)) > 2 * block_size
    /\ \E i \in 1..Len(cipher.plaintext) : cipher.plaintext[i] > 127
    /\ \E i \in 1..Len(cipher.plaintext) : cipher.plaintext[i] < 128
    /\ hanna_decrypt(cipher.output) = cipher.plaintext
    /\ cipher.output # cipher.iv \o <<58>> \o hex(pad(str_encode(cipher.plaintext), block_size))

\* C26: a cycle starts with get_devices, and get_device_readings is
\* entered at most once in it, in the step in which get_devices returns a
\* non-empty list, with the DID of each device of that list, in the list's
\* order and as often as it occurs there; every request of that call
\* carries these ids, and nothing is published while a call is pending: a
\* PollResult with devices is published only as get_device_readings returns.
C26_DevicesThenReadings ==
    /\ []((call.op = "get_device_readings" /\ call.outcome = "pending")
            => /\ devices.list # <<>>
               /\ devices.cycle = cycle
               /\ Len(call.device_ids) = Len(devices.list)
               /\ \A i \in 1..Len(devices.list) :
                    call.device_ids[i] = devices.list[i].DID
               /\ (pc = "await_data"
                     => /\ request.op = "get_device_readings"
                        /\ request.device_ids = call.device_ids))
    /\ [](\A s \in SeqsUpTo(DIDs, 3) : device_ids(DeviceList(s)) = s)
    /\ [][CallStarts
            => IF cycle' # cycle
               THEN call'.op = "get_devices"
               ELSE /\ call'.op = "get_device_readings"
                    /\ call.op = "get_devices"
                    /\ call.outcome = "pending"
                    /\ pc = "await_data"
                    /\ data' = data
                    /\ \E r \in DevicesResponses :
                         /\ Valid200(r)
                         /\ r.body.list # <<>>
                         /\ DevicesResponse(r)
                         /\ devices' = [list |-> r.body.list, cycle |-> cycle]
                         /\ call'.device_ids
                              = [i \in 1..Len(r.body.list) |-> r.body.list[i].DID]]_vars
    /\ [][pc' \in AwaitStates => (data' = data \/ ~data'.published)]_vars
    /\ [][(data' # data /\ data'.published)
            => /\ pc \in AwaitStates
               /\ pc' \notin AwaitStates
               /\ call'.outcome = "ok"
               /\ (data'.devices # <<>>
                     => /\ call.op = "get_device_readings"
                        /\ data'.devices = devices.list
                        /\ devices.cycle = cycle)]_vars

\* get_devices has returned device B in this cycle, GetLastDeviceReading
\* is in flight for <<B>>, and what is published is still the cycle before
C26_Witness ==
    /\ pc = "await_data"
    /\ call.op = "get_device_readings"
    /\ call.outcome = "pending"
    /\ devices = [list |-> DeviceList(<<"B">>), cycle |-> cycle]
    /\ request.device_ids = <<"B">>
    /\ data.published
    /\ data.dcycle # cycle

\* a response with status 401 or 403
Rejected(r) == r.kind = "http" /\ r.status \in {401, 403}

\* C27: the client's token goes from held to none only in the step that
\* handles a 401 or 403 answer to a data request; the handling of every
\* other answer to a data request, whether the call then fails (timeout,
\* transport error, another status, an unusable 200) or returns, leaves the
\* token as it is.  (A set-up makes a new client, which holds none.)
C27_TokenClearedOnlyOnRejection ==
    /\ [][(token # NoToken /\ token' = NoToken /\ pc # "idle")
            => /\ pc = "await_data"
               /\ call'.rejected \in {401, 403}
               /\ \E r \in DevicesResponses \cup ReadingsResponses :
                    /\ Rejected(r)
                    /\ DevicesResponse(r) \/ ReadingsResponse(r)]_vars
    /\ [][pc = "await_data"
            => \A r \in DevicesResponses \cup ReadingsResponses :
                 \/ Rejected(r)
                 \/ token' = token
                 \/ ~(DevicesResponse(r) \/ ReadingsResponse(r))]_vars
    /\ [][(pc = "idle" /\ pc' \in AwaitStates /\ entry_state = "loaded")
            => token' = token]_vars

\* get_devices of a refresh sent its request with t1 and failed on a
\* status that is neither 401 nor 403 (or on a timeout): t1 is still held
C27_Witness ==
    /\ entry_state = "loaded"
    /\ pc = "idle"
    /\ call = Ended("get_devices", "UpdateFailed")
    /\ last_exception = WrapException("UpdateFailed")
    /\ token = "t1"

\* a step that sends a login request
SendsLogin == request'.url = "/auth" /\ request.url # "/auth"
\* a 200 answer to a data request is handled
Handles200 ==
    \E r \in DevicesResponses \cup ReadingsResponses :
        r.kind = "http" /\ r.status = 200 /\ (DevicesResponse(r) \/ ReadingsResponse(r))

\* C28 as amended: a login is sent only at the start of a call that finds
\* no token or on a 401/403 answer to a data request of the call.  A cycle
\* that starts with a token sends the Devices request at once and no login;
\* a 200 answer never causes a login; after a 200 answer to Devices the
\* cycle ends or sends the one GetLastDeviceReading request (which it does
\* when the answer holds a non-empty list of devices with ids), and after
\* a 200 answer to that it ends: two requests then, one when the device
\* list is empty or the answer unusable, and no login.
C28_LoginOnlyWhenNeeded ==
    /\ [][SendsLogin
            => \/ CallStarts /\ token' = NoToken /\ call'.logins = 1 /\ call'.reqs = 0
               \/ /\ ~CallStarts
                  /\ pc = "await_data"
                  /\ \E r \in DevicesResponses \cup ReadingsResponses :
                       Rejected(r) /\ (DevicesResponse(r) \/ ReadingsResponse(r))]_vars
    /\ [][(CallStarts /\ token' # NoToken)
            => /\ request' = [url |-> "/graphql", op |-> call'.op, bearer |-> token',
                              device_ids |-> call'.device_ids]
               /\ call'.logins = 0
               /\ call'.reqs = 1]_vars
    /\ [][(pc = "await_data" /\ call.logins = 0 /\ call.reqs = 1 /\ Handles200)
            => /\ ~SendsLogin
               /\ token' = token
               /\ IF call.op = "get_devices" /\ pc' \in AwaitStates
                  THEN /\ CallStarts
                       /\ call'.op = "get_device_readings"
                       /\ request'.op = "get_device_readings"
                       /\ call'.logins = 0
                       /\ call'.reqs = 1
                  ELSE /\ pc' \notin AwaitStates
                       /\ request' = NoRequest]_vars
    /\ [][(pc = "await_data" /\ call.op = "get_devices")
            => \A r \in DevicesResponses :
                 \/ ~(Valid200(r) /\ r.body.list # <<>>
                        /\ \A i \in 1..Len(r.body.list) : r.body.list[i].DID # NoKey)
                 \/ request'.op = "get_device_readings"
                 \/ ~DevicesResponse(r)]_vars

\* a refresh that found t1 held got 200 for Devices and has sent
\* GetLastDeviceReading, its second request, with no login
C28_Witness ==
    /\ entry_state = "loaded"
    /\ pc = "await_data"
    /\ call.op = "get_device_readings"
    /\ call.logins = 0
    /\ call.reqs = 1
    /\ request.bearer = "t1"
    /\ ENABLED (\E r \in ValidReadings : ReadingsResponse(r))

\* C28 as stated: a cycle that starts with a token and receives only 200
\* answers sends exactly two requests, so it does not end on the answer to
\* its first.
C28_ExactlyTwoRequests ==
    [][(/\ pc = "await_data"
        /\ call.op = "get_devices"
        /\ call.logins = 0
        /\ call.reqs = 1
        /\ entry_state = "loaded"
        /\ Handles200)
          => pc' \in AwaitStates]_vars

\* the login was answered and refused: 401, or 200 with GraphQL errors,
\* without login data or without a token
RejectedLogin(r) ==
    /\ r.kind = "http"
    /\ \/ r.status = 401
       \/ /\ r.status = 200
          /\ r.body.json = "object"
          /\ \/ r.body.errors
             \/ r.body.data # "object"
             \/ r.body.field \notin {"list", "object"}
             \/ r.body.token \notin Tokens
\* no answer, or one with another status
NoConnection(r) ==
    \/ r.kind \in {"timeout", "error"}
    \/ r.kind = "http" /\ r.status \notin {200, 401}

\* C29: a submission whose login is refused makes validate_input raise
\* InvalidAuth and the form come back with invalid_auth; cannot_connect is
\* shown only after a timeout, a transport error, another status, or when
\* Crypto cannot be imported.
C29_InvalidAuthReported ==
    flow.email # "none" =>
        /\ (crypto /\ RejectedLogin(flow.response))
             => /\ flow.result = "form"
                /\ flow.raised = "InvalidAuth"
                /\ flow.errors = "invalid_auth"
        /\ flow.errors = "cannot_connect"
             => (~crypto \/ NoConnection(flow.response))

\* C30: hass.data[DOMAIN] holds the entry's coordinator exactly from the
\* success of the first refresh of a set-up until the entry is unloaded with
\* success.  It is put there in the step that ends the first refresh with
\* success and in no other; a first refresh that fails registers nothing;
\* an unload that succeeds removes it, and one whose platform unload fails
\* leaves it.
C30_RegistryHoldsLoadedEntries ==
    /\ [](Entry \in hass_data
            <=> (pc = "forward" \/ entry_state \in {"loaded", "failed_unload"}))
    /\ [][(Entry \in hass_data' \ hass_data)
            => /\ entry_state = "setup_in_progress"
               /\ pc \in AwaitStates
               /\ call'.outcome = "ok"
               /\ last_exception' = NoException
               /\ data'.published
               /\ data'.rcycle = cycle]_vars
    /\ [][(entry_state = "setup_in_progress" /\ pc \in AwaitStates /\ pc' \notin AwaitStates)
            => IF call'.outcome = "ok" /\ last_exception' = NoException
               THEN Entry \in hass_data'
               ELSE Entry \notin hass_data' /\ entry_state' = "setup_retry"]_vars
    /\ [][(Entry \in hass_data \ hass_data')
            => entry_state = "loaded" /\ entry_state' = "not_loaded" /\ ~platforms']_vars
    /\ [][(entry_state = "loaded" /\ entry_state' = "not_loaded")
            => Entry \notin hass_data']_vars
    /\ [][(entry_state = "loaded" /\ entry_state' = "failed_unload")
            => (Entry \in hass_data' /\ platforms')]_vars

\* the entry was set up, and its unload failed on the platforms: the
\* coordinator is still registered
C30_Witness ==
    /\ entry_state = "failed_unload"
    /\ Entry \in hass_data
    /\ platforms
    /\ data.published

\* the login was answered 200 with a token in its login data and no errors
TokenObtained(r) ==
    /\ r.kind = "http"
    /\ r.status = 200
    /\ r.body.json = "object"
    /\ ~r.body.errors
    /\ r.body.data = "object"
    /\ r.body.field \in {"list", "object"}
    /\ r.body.token \in Tokens

\* C31: an entry is created only by a submission whose login obtained a
\* token (Crypto being there), and it is the entry of the submitted email;
\* a submission whose validation fails creates none and shows the form
\* with one error; a submission whose email has an entry already aborts,
\* and no email ever has two entries.
C31_EntryOnlyAfterToken ==
    /\ [](flow.result = "create_entry"
            => /\ crypto
               /\ TokenObtained(flow.response)
               /\ flow.errors = "none"
               /\ Len(flow.entries) >= 1
               /\ flow.entries[Len(flow.entries)] = flow.email)
    /\ []((flow.email # "none" /\ ~(crypto /\ TokenObtained(flow.response)))
            => /\ flow.result = "form"
               /\ flow.errors \in {"cannot_connect", "invalid_auth", "unknown"})
    /\ []((flow.email # "none" /\ crypto /\ TokenObtained(flow.response))
            => flow.result \in {"create_entry", "abort"} /\ flow.errors = "none")
    /\ [](\A i, j \in 1..Len(flow.entries) : flow.entries[i] = flow.entries[j] => i = j)
    /\ [](flow.result = "abort"
            => \E i \in 1..Len(flow.entries) : flow.entries[i] = flow.email)
    /\ [][flow'.entries # flow.entries
            => /\ flow'.result = "create_entry"
               /\ flow'.entries = Append(flow.entries, flow'.email)
               /\ \A i \in 1..Len(flow.entries) : flow.entries[i] # flow'.email]_vars
    /\ [][flow'.result \in {"form", "abort"} => flow'.entries = flow.entries]_vars
    /\ [][(flow'.email # "none" /\ flow' # flow
             /\ \E i \in 1..Len(flow.entries) : flow.entries[i] = flow'.email)
            => flow'.result \in {"form", "abort"}]_vars

\* both emails have an entry, and the last submission, of the first one
\* again with a login that obtained a token, was aborted
C31_Witness ==
    /\ flow.result = "abort"
    /\ Len(flow.entries) = 2
    /\ flow.email = flow.entries[1]
    /\ TokenObtained(flow.response)

\* C32: the interval the coordinator schedules its cycles with is that of
\* the option stored for the entry (5 minutes while none is stored), also
\* after the options flow has stored a new one.
C32_IntervalFollowsOption ==
    options.interval # 0
        => options.interval
             = 60 * (IF options.stored = {}
                     THEN DEFAULT_UPDATE_INTERVAL
                     ELSE (CHOOSE item \in options.stored : TRUE)[2])

====
